---- MODULE Spec2Model ----
(***************************************************************************)
(* Model of hypo71_to_NLL.py: conversion of a hypo71 phase file to a NLLoc *)
(* phase file.  A line of the file is a sequence of one-character strings, *)
(* so that the fixed-column indexing and slicing of the source, and its    *)
(* int(), float() and strptime() conversions, are computed character by    *)
(* character.  Times are kept as a calendar date and a time of day counted *)
(* in units of 1e-4 s (a 5-character seconds field has at most 4 decimal   *)
(* places).  Exceptions are values: every operator that can raise returns  *)
(* a record whose field exc names the exception ("none" when it returns).  *)
(***************************************************************************)
EXTENDS Integers, Sequences, FiniteSets, TLC

VARIABLES
    lines,      \* the lines of pick_file, as iterated by "for line in fp"
    errors,     \* args.errors: the 5 picking errors, indexed by quality
    pc,         \* position of the run
    vi,         \* index of the next line of _is_hypo71_picks's loop
    idx,        \* index of the next line of parse_hypo71_picks's loop
    all_picks,  \* parse_hypo71_picks: the events closed so far
    picks,      \* parse_hypo71_picks: the current event buffer
    ndecoded,   \* number of calls of _parse_hypo71_pick_line made so far
    out,        \* what has been written to fp, one element per line
    oi,         \* run: index of the event being written
    oj,         \* run: index of the next pick of that event
    exc,        \* the exception that ended the run ("none" when none)
    vres,       \* single-line harness: outcome of the validator's loop body
    dres        \* single-line harness: outcome of _parse_hypo71_pick_line

vars == <<lines, errors, pc, vi, idx, all_picks, picks, ndecoded, out, oi, oj,
          exc, vres, dres>>

-----------------------------------------------------------------------------
(* Bounds *)

\* longest file, in lines, of the whole-run specification
MaxLines == 3

-----------------------------------------------------------------------------
(* Characters and strings *)

Digits == <<"0", "1", "2", "3", "4", "5", "6", "7", "8", "9">>

\* str.isdigit() of one ASCII character
isdigit(c) == \E i \in 1..10 : Digits[i] = c

DigitVal(c) == (CHOOSE i \in 1..10 : Digits[i] = c) - 1

\* the characters str.strip() removes that the model's alphabet contains
Whitespace == {" ", "\t", "\n"}

Min(a, b) == IF a < b THEN a ELSE b

\* Python s[a:b] for 0 <= a <= b: clipped to the string, never raises
Slice(s, a, b) == SubSeq(s, a + 1, Min(b, Len(s)))

\* Python s[i] for i >= 0: raises IndexError past the end of the string
HasIndex(s, i) == i < Len(s)
At(s, i) == s[i + 1]

RECURSIVE lstrip(_)
lstrip(s) ==
    IF s # <<>> /\ Head(s) \in Whitespace THEN lstrip(Tail(s)) ELSE s

RECURSIVE rstrip(_)
rstrip(s) ==
    IF s # <<>> /\ s[Len(s)] \in Whitespace
    THEN rstrip(SubSeq(s, 1, Len(s) - 1))
    ELSE s

\* str.strip()
strip(s) == lstrip(rstrip(s))

\* str.replace(old, new) for one-character old and new ('' as <<>>)
replace(s, old, new) ==
    LET RECURSIVE go(_)
        go(t) == IF t = <<>> THEN <<>>
                 ELSE (IF Head(t) = old THEN new ELSE <<Head(t)>>) \o go(Tail(t))
    IN go(s)

\* f'{s:6}': left-justified in a field of 6, longer strings unchanged
RECURSIVE ljust(_, _)
ljust(s, w) == IF Len(s) >= w THEN s ELSE ljust(s \o <<" ">>, w)

AllDigits(s) == \A i \in 1..Len(s) : isdigit(s[i])

RECURSIVE DigitsVal(_)
DigitsVal(s) ==
    IF s = <<>> THEN 0 ELSE 10 * DigitsVal(SubSeq(s, 1, Len(s) - 1)) + DigitVal(s[Len(s)])

RECURSIVE Pow10(_)
Pow10(n) == IF n = 0 THEN 1 ELSE 10 * Pow10(n - 1)

\* int(s): surrounding whitespace, an optional sign, then decimal digits;
\* anything else is a ValueError
int(s) ==
    LET t == strip(s)
        neg == t # <<>> /\ Head(t) = "-"
        u == IF t # <<>> /\ Head(t) \in {"+", "-"} THEN Tail(t) ELSE t
    IN IF u # <<>> /\ AllDigits(u)
       THEN [exc |-> "none", val |-> IF neg THEN 0 - DigitsVal(u) ELSE DigitsVal(u)]
       ELSE [exc |-> "ValueError", val |-> 0]

\* float(s), in units of 1e-4: surrounding whitespace, an optional sign,
\* digits with at most one decimal point and at least one digit; anything
\* else the alphabet of the model can spell is a ValueError
float(s) ==
    LET t == strip(s)
        neg == t # <<>> /\ Head(t) = "-"
        u == IF t # <<>> /\ Head(t) \in {"+", "-"} THEN Tail(t) ELSE t
        dots == {i \in 1..Len(u) : u[i] = "."}
        dot == IF dots = {} THEN Len(u) + 1 ELSE CHOOSE i \in dots : TRUE
        ip == SubSeq(u, 1, dot - 1)
        fp == SubSeq(u, dot + 1, Len(u))
        mag == DigitsVal(ip) * 10000 + DigitsVal(fp) * Pow10(4 - Len(fp))
    IN IF /\ Cardinality(dots) <= 1
          /\ AllDigits(ip) /\ AllDigits(fp)
          /\ Len(ip) + Len(fp) > 0
          /\ Len(fp) <= 4
       THEN [exc |-> "none", val |-> IF neg THEN 0 - mag ELSE mag]
       ELSE [exc |-> "ValueError", val |-> 0]

\* int(x) of a float: truncation toward zero; here of seconds * 1000, for
\* seconds in units of 1e-4, giving whole milliseconds.  The product is
\* exact here; the binary product of Python can fall just below a whole
\* number and truncate one millisecond lower ('08.12' gives 8119), which
\* none of the seconds values of the input sets below does.
TruncMs(u) == IF u >= 0 THEN u \div 10 ELSE 0 - ((0 - u) \div 10)

-----------------------------------------------------------------------------
(* datetime and timedelta *)

\* units of 1e-4 s in a minute and in a day
MinuteUnits == 60 * 10000
DayUnits == 24 * 60 * MinuteUnits

IsLeap(y) == (y % 4 = 0 /\ y % 100 # 0) \/ y % 400 = 0

DaysInMonth(y, m) ==
    IF m = 2 THEN (IF IsLeap(y) THEN 29 ELSE 28)
    ELSE IF m \in {4, 6, 9, 11} THEN 30 ELSE 31

NextDay(dt) ==
    IF dt.d < DaysInMonth(dt.y, dt.mo) THEN [dt EXCEPT !.d = dt.d + 1]
    ELSE IF dt.mo < 12 THEN [dt EXCEPT !.mo = dt.mo + 1, !.d = 1]
    ELSE [dt EXCEPT !.y = dt.y + 1, !.mo = 1, !.d = 1]

PrevDay(dt) ==
    IF dt.d > 1 THEN [dt EXCEPT !.d = dt.d - 1]
    ELSE IF dt.mo > 1
         THEN [dt EXCEPT !.mo = dt.mo - 1, !.d = DaysInMonth(dt.y, dt.mo - 1)]
    ELSE [dt EXCEPT !.y = dt.y - 1, !.mo = 12, !.d = 31]

RECURSIVE AddDays(_, _)
AddDays(dt, n) ==
    IF n = 0 THEN dt
    ELSE IF n > 0 THEN AddDays(NextDay(dt), n - 1)
    ELSE AddDays(PrevDay(dt), n + 1)

\* datetime.strptime(datestr, '%y%m%d'): two digits each of year, month and
\* day (a 6-character string leaves the directives no other split), a year
\* below 69 in 2000-2068 and the others in 1969-1999, and a day the month
\* has; anything else is a ValueError.  The result is midnight of that day.
strptime(datestr) ==
    LET yy == DigitsVal(SubSeq(datestr, 1, 2))
        y == IF yy < 69 THEN 2000 + yy ELSE 1900 + yy
        mo == DigitsVal(SubSeq(datestr, 3, 4))
        d == DigitsVal(SubSeq(datestr, 5, 6))
    IN IF /\ Len(datestr) = 6
          /\ AllDigits(datestr)
          /\ mo \in 1..12
          /\ d \in 1..DaysInMonth(y, mo)
       THEN [exc |-> "none", val |-> [y |-> y, mo |-> mo, d |-> d, t |-> 0]]
       ELSE [exc |-> "ValueError", val |-> [y |-> 0, mo |-> 0, d |-> 0, t |-> 0]]

\* timedelta(hours=h, minutes=m, milliseconds=ms), normalised to whole days
\* and a time of day
timedelta(h, m, ms) ==
    LET totalmin == h * 60 + m
        u == (totalmin % (24 * 60)) * MinuteUnits + ms * 10
    IN [days |-> (totalmin \div (24 * 60)) + (u \div DayUnits),
        t |-> u % DayUnits]

\* timedelta(seconds=s) for s in units of 1e-4
timedelta_seconds(s) == [days |-> s \div DayUnits, t |-> s % DayUnits]

\* datetime + timedelta
plus(dt, td) ==
    LET u == dt.t + td.t
        day == AddDays([dt EXCEPT !.t = 0], td.days + (u \div DayUnits))
    IN [day EXCEPT !.t = u % DayUnits]

\* datetime.replace(second=0, microsecond=0)
replace_second0(dt) == [dt EXCEPT !.t = dt.t - (dt.t % MinuteUnits)]

hour_of(dt) == dt.t \div (60 * MinuteUnits)
minute_of(dt) == (dt.t % (60 * MinuteUnits)) \div MinuteUnits
\* seconds and fraction of the minute, in units of 1e-4
second_of(dt) == dt.t % MinuteUnits

\* datetime.strftime('%Y%m%d %H%M %S.%f'): the fields the format prints
strftime(dt) ==
    [Y |-> dt.y, m |-> dt.mo, d |-> dt.d, H |-> hour_of(dt), M |-> minute_of(dt),
     S |-> second_of(dt) \div 10000, f |-> (second_of(dt) % 10000) * 100]

-----------------------------------------------------------------------------
(* class Pick *)

\* Pick.to_nlloc(): the fields of the NLLoc line, in the order it prints them
to_nlloc(pick) ==
    [station |-> ljust(pick.station, 6), phase |-> pick.phase,
     timestr |-> strftime(pick.time), error |-> pick.error]

-----------------------------------------------------------------------------
(* _is_hypo71_picks and _parse_hypo71_pick_line *)

SEP == <<"1", "0">>

\* "stripped_line in ['10', '']" after line.replace('\n', '')
IsSkipped(line) == strip(replace(line, "\n", <<>>)) \in {SEP, <<>>}

\* the test "line[5] in ['P', ' '] and line[9].isdigit() and
\* line[20].isdigit()", evaluated left to right with short-circuit "and":
\* "IndexError" when an index that is evaluated is past the end of the line
SignatureTest(line) ==
    IF ~HasIndex(line, 5) THEN "IndexError"
    ELSE IF At(line, 5) \notin {"P", " "} THEN "False"
    ELSE IF ~HasIndex(line, 9) THEN "IndexError"
    ELSE IF ~isdigit(At(line, 9)) THEN "False"
    ELSE IF ~HasIndex(line, 20) THEN "IndexError"
    ELSE IF ~isdigit(At(line, 20)) THEN "False"
    ELSE "True"

\* the loop body with the test of the phase column left out: only the two
\* digit columns are tested
_is_hypo71_picks_line_digits_only(line0) ==
    LET line == replace(line0, "\n", <<>>)
    IN IF IsSkipped(line0) THEN "none"
       ELSE IF ~HasIndex(line, 9) THEN "IndexError"
       ELSE IF ~isdigit(At(line, 9)) THEN "TypeError"
       ELSE IF ~HasIndex(line, 20) THEN "IndexError"
       ELSE IF ~isdigit(At(line, 20)) THEN "TypeError"
       ELSE "none"

\* one iteration of the loop of _is_hypo71_picks: "none" when the loop goes
\* on to the next line, else the exception the iteration raises
_is_hypo71_picks_line(line0) ==
    LET line == replace(line0, "\n", <<>>)
        test == SignatureTest(line)
    IN IF IsSkipped(line0) THEN "none"
       ELSE IF test = "IndexError" THEN "IndexError"
       ELSE IF test = "False" THEN "TypeError"
       ELSE "none"

\* "try: q = int(field) except ValueError: q = 4"
ReadQuality(field) ==
    IF int(field).exc = "ValueError" THEN 4 ELSE int(field).val

\* errors[quality - 1]: the table indexed as if qualities started at 1
ErrorAt_from_one(errs, quality) ==
    IF quality - 1 >= 0 THEN errs[quality] ELSE errs[Len(errs) + quality]

\* errors[quality]: Python list indexing, IndexError outside -5..4
HasError(errs, quality) == quality < Len(errs) /\ quality >= 0 - Len(errs)

ErrorAt(errs, quality) ==
    IF quality >= 0 THEN errs[quality + 1] ELSE errs[Len(errs) + quality + 1]

NoPicks == <<>>

Raise(e) == [exc |-> e, ret |-> "raise", picks |-> NoPicks]
Return(ps) == [exc |-> "none", ret |-> "list", picks |-> ps]
\* the bare "return" of the function: it returns None
ReturnNone == [exc |-> "none", ret |-> "None", picks |-> NoPicks]

\* _parse_hypo71_pick_line(line, errors)
_parse_hypo71_pick_line(line0, errs) ==
    LET line == replace(line0, "\n", <<>>)
        test == SignatureTest(line)
        quality == ReadQuality(Slice(line, 7, 8))
        timestr == replace(Slice(line, 9, 24), " ", <<"0">>)
        datestr == Slice(timestr, 0, 6)
        hour == int(Slice(timestr, 6, 8))
        minute == int(Slice(timestr, 8, 10))
        seconds == float(Slice(timestr, 10, 15))
        milliseconds == TruncMs(seconds.val)
        date == strptime(datestr)
        pick == [station |-> strip(Slice(line, 0, 4)),
                 flag |-> Slice(line, 4, 5),
                 phase |-> Slice(line, 5, 6),
                 polarity |-> Slice(line, 6, 7),
                 quality |-> quality,
                 error |-> ErrorAt(errs, quality),
                 time |-> plus(date.val, timedelta(hour.val, minute.val, milliseconds))]
        ps == IF pick.phase = <<"P">> THEN <<pick>> ELSE <<>>
        stime == Slice(line, 31, 36)
        quality2 == ReadQuality(Slice(line, 39, 40))
        stimeval == float(stime)
        pick2 == [station |-> pick.station,
                  flag |-> Slice(line, 36, 37),
                  phase |-> Slice(line, 37, 38),
                  polarity |-> Slice(line, 38, 39),
                  quality |-> quality2,
                  error |-> ErrorAt(errs, quality2),
                  time |-> plus(replace_second0(pick.time),
                                timedelta_seconds(stimeval.val))]
    IN IF IsSkipped(line0) THEN ReturnNone
       ELSE IF test = "IndexError" THEN Raise("IndexError")
       ELSE IF test = "False" THEN ReturnNone
       ELSE IF ~HasError(errs, quality) THEN Raise("IndexError")
       ELSE IF hour.exc # "none" THEN Raise("ValueError")
       ELSE IF minute.exc # "none" THEN Raise("ValueError")
       ELSE IF seconds.exc # "none" THEN Raise("ValueError")
       ELSE IF date.exc # "none" THEN Raise("ValueError")
       ELSE IF strip(stime) = <<>> THEN Return(ps)
       ELSE IF ~HasError(errs, quality2) THEN Raise("IndexError")
       ELSE IF stimeval.exc # "none" THEN Raise("ValueError")
       ELSE Return(ps \o <<pick2>>)

-----------------------------------------------------------------------------
(* Input files *)

Gap == <<" ", " ", " ", " ", " ", " ", " ">>

\* a hypo71 pick line from its fixed columns: station [0,4), flag, phase,
\* polarity, quality, one blank, date [9,15), hour, minute, seconds [19,24),
\* seven columns the program does not read, then the second pick: seconds
\* [31,36), flag, phase, polarity, quality
MkLine(sta, phase, q, date, hh, mi, ss, stime, phase2, q2) ==
    sta \o <<"I", phase, "U", q, " ">> \o date \o hh \o mi \o ss \o Gap
        \o stime \o <<"E", phase2, " ", q2>>

\* the first n characters of a line, and the newline that ends it in the file
Cut(line, n) == SubSeq(line, 1, Min(n, Len(line))) \o <<"\n">>

STA == <<"S", "T", "A", " ">>
D240229 == <<"2", "4", "0", "2", "2", "9">>
D240230 == <<"2", "4", "0", "2", "3", "0">>
H23 == <<"2", "3">>
M59 == <<"5", "9">>
S1234 == <<"1", "2", ".", "3", "4">>
NoStime == <<" ", " ", " ", " ", " ">>
St1550 == <<"1", "5", ".", "5", "0">>

\* the lines the files of the whole-run specification are made of
L_blank == <<" ", "\n">>
L_sep == <<"1", "0", "\n">>
L_sep_padded == <<" ", "1", "0", " ", "\n">>
L_P == Cut(MkLine(STA, "P", "1", D240229, H23, M59, S1234, NoStime, " ", " "), 40)
L_PS == Cut(MkLine(STA, "P", "0", D240229, H23, M59, S1234, St1550, "S", "2"), 40)
L_S == Cut(MkLine(STA, " ", " ", D240229, H23, M59, S1234, St1550, "S", "3"), 40)
L_base == Cut(MkLine(STA, " ", " ", D240229, H23, M59, S1234, NoStime, " ", " "), 24)
L_notpick == Cut(MkLine(STA, "S", "1", D240229, H23, M59, S1234, NoStime, " ", " "), 40)
L_short == Cut(MkLine(STA, "P", "1", D240229, H23, M59, S1234, NoStime, " ", " "), 8)
L_q7 == Cut(MkLine(STA, "P", "7", D240229, H23, M59, S1234, NoStime, " ", " "), 40)

FileLines ==
    {L_blank, L_sep, L_sep_padded, L_P, L_PS, L_S, L_base, L_notpick, L_short, L_q7}

\* the files of at most n lines
Files(n) == UNION {[1..k -> FileLines] : k \in 0..n}

\* args.errors: parse_args builds a list of exactly 5 floats.  The values
\* are in units of 0.01 s; the first table is the default of --errors.
ErrorTables == {<<1, 2, 3, 4, 5>>, <<50, 40, 30, 20, 10>>}

\* the lines of the single-line specification: the columns vary over values
\* that int(), float() and strptime() accept and values they reject, and the
\* line is cut at lengths on both sides of every index the program reads
Phases == {"P", " ", "S"}
Qualities == {"1", "7", " "}
Dates == {D240229, D240230}
Hours == {<<"2", "3">>, <<"2", "x">>}
Seconds == {<<"1", "2", ".", "3", "4">>, <<" ", "5", ".", "2", " ">>}
Stimes == {<<" ", " ", " ", " ", " ">>, <<"1", "5", ".", "5", "0">>, <<"7", "5", ".", "0", "0">>, <<"-", "1", ".", "2", "0">>, <<"1", "x", ".", "0", "0">>}
Phases2 == {"S", " "}
Qualities2 == {"2", "8", "x"}
Lengths == {4, 8, 12, 21, 24, 38, 40}

PickLines ==
    {Cut(MkLine(STA, ph, q, date, hh, M59, ss, st, ph2, q2), n) :
        ph \in Phases, q \in Qualities, date \in Dates, hh \in Hours,
        ss \in Seconds, st \in Stimes, ph2 \in Phases2, q2 \in Qualities2,
        n \in Lengths}

-----------------------------------------------------------------------------
(* The run: run() calling parse_hypo71_picks, then writing *)

Uncalled == [exc |-> "none", ret |-> "uncalled", picks |-> NoPicks]

Init ==
    /\ lines \in Files(MaxLines)
    /\ errors \in ErrorTables
    /\ pc = "validate"
    /\ vi = 1
    /\ idx = 1
    /\ all_picks = <<>>
    /\ picks = <<>>
    /\ ndecoded = 0
    /\ out = <<>>
    /\ oi = 1
    /\ oj = 1
    /\ exc = "none"
    /\ vres = "uncalled"
    /\ dres = Uncalled

\* _is_hypo71_picks: one iteration of "for line in fp".  A TypeError is
\* caught by parse_hypo71_picks, which calls sys.exit(err); any other
\* exception propagates out of run().
Validate ==
    /\ pc = "validate"
    /\ vi <= Len(lines)
    /\ LET r == _is_hypo71_picks_line(lines[vi])
       IN IF r = "none"
          THEN /\ vi' = vi + 1
               /\ UNCHANGED <<pc, exc>>
          ELSE /\ pc' = IF r = "TypeError" THEN "exit" ELSE "crash"
               /\ exc' = r
               /\ UNCHANGED vi
    /\ UNCHANGED <<lines, errors, idx, all_picks, picks, ndecoded, out, oi, oj,
                   vres, dres>>

\* _is_hypo71_picks returns: parse_hypo71_picks goes on to its own loop
ValidateDone ==
    /\ pc = "validate"
    /\ vi > Len(lines)
    /\ pc' = "parse"
    /\ all_picks' = <<>>
    /\ picks' = <<>>
    /\ UNCHANGED <<lines, errors, vi, idx, ndecoded, out, oi, oj, exc, vres, dres>>

\* "line in ['10\n']": the separator compared without strip()
IsSeparator_unstripped(line) == line = SEP \o <<"\n">>

\* "line.strip() in ['10']"
IsSeparator(line) == strip(line) = SEP

\* parse_hypo71_picks: one iteration of "for line in fp"
ParseLine ==
    /\ pc = "parse"
    /\ idx <= Len(lines)
    /\ LET line == lines[idx]
           closed == IsSeparator(line)
           buf == IF closed THEN <<>> ELSE picks
           r == _parse_hypo71_pick_line(line, errors)
       IN /\ all_picks' = IF closed THEN Append(all_picks, picks) ELSE all_picks
          /\ ndecoded' = ndecoded + 1
          /\ IF r.ret = "raise"
             THEN /\ pc' = "crash"
                  /\ exc' = r.exc
                  /\ picks' = buf
                  /\ UNCHANGED idx
             ELSE /\ picks' = IF r.picks # <<>> THEN buf \o r.picks ELSE buf
                  /\ idx' = idx + 1
                  /\ UNCHANGED <<pc, exc>>
    /\ UNCHANGED <<lines, errors, vi, out, oi, oj, vres, dres>>

\* parse_hypo71_picks returns all_picks; run() opens the output
ParseDone ==
    /\ pc = "parse"
    /\ idx > Len(lines)
    /\ pc' = "output"
    /\ oi' = 1
    /\ oj' = 1
    /\ UNCHANGED <<lines, errors, vi, idx, all_picks, picks, ndecoded, out, exc,
                   vres, dres>>

PickLine(pick) == [kind |-> "pick", text |-> to_nlloc(pick)]
BlankLine == [kind |-> "blank", text |-> [station |-> <<>>, phase |-> <<>>,
              timestr |-> strftime([y |-> 0, mo |-> 0, d |-> 0, t |-> 0]), error |-> 0]]

\* run: fp.write(pick.to_nlloc() + '\n')
WritePick ==
    /\ pc = "output"
    /\ oi <= Len(all_picks)
    /\ oj <= Len(all_picks[oi])
    /\ out' = Append(out, PickLine(all_picks[oi][oj]))
    /\ oj' = oj + 1
    /\ UNCHANGED <<lines, errors, pc, vi, idx, all_picks, picks, ndecoded, oi, exc,
                   vres, dres>>

\* the blank lines written only after an event that has picks
WriteBlank_nonempty ==
    /\ pc = "output"
    /\ oi <= Len(all_picks)
    /\ oj > Len(all_picks[oi])
    /\ out' = IF all_picks[oi] = <<>> THEN out ELSE out \o <<BlankLine, BlankLine>>
    /\ oi' = oi + 1
    /\ oj' = 1
    /\ UNCHANGED <<lines, errors, pc, vi, idx, all_picks, picks, ndecoded, exc,
                   vres, dres>>

\* run: fp.write('\n\n') after the picks of an event
WriteBlank ==
    /\ pc = "output"
    /\ oi <= Len(all_picks)
    /\ oj > Len(all_picks[oi])
    /\ out' = out \o <<BlankLine, BlankLine>>
    /\ oi' = oi + 1
    /\ oj' = 1
    /\ UNCHANGED <<lines, errors, pc, vi, idx, all_picks, picks, ndecoded, exc,
                   vres, dres>>

\* run: the loop over all_picks ends
Finish ==
    /\ pc = "output"
    /\ oi > Len(all_picks)
    /\ pc' = "done"
    /\ UNCHANGED <<lines, errors, vi, idx, all_picks, picks, ndecoded, out, oi, oj,
                   exc, vres, dres>>

Next ==
    \/ Validate
    \/ ValidateDone
    \/ ParseLine
    \/ ParseDone
    \/ WritePick
    \/ WriteBlank
    \/ Finish

Spec == Init /\ [][Next]_vars

-----------------------------------------------------------------------------
(* One line: the validator's loop body and the decoder, each applied to it *)

InitLine ==
    /\ lines \in {<<l>> : l \in PickLines}
    /\ errors \in ErrorTables
    /\ pc = "line"
    /\ vi = 1
    /\ idx = 1
    /\ all_picks = <<>>
    /\ picks = <<>>
    /\ ndecoded = 0
    /\ out = <<>>
    /\ oi = 1
    /\ oj = 1
    /\ exc = "none"
    /\ vres = "uncalled"
    /\ dres = Uncalled

CallValidator ==
    /\ pc = "line"
    /\ vres = "uncalled"
    /\ vres' = _is_hypo71_picks_line(lines[1])
    /\ UNCHANGED <<lines, errors, pc, vi, idx, all_picks, picks, ndecoded, out,
                   oi, oj, exc, dres>>

CallDecoder ==
    /\ pc = "line"
    /\ dres.ret = "uncalled"
    /\ dres' = _parse_hypo71_pick_line(lines[1], errors)
    /\ UNCHANGED <<lines, errors, pc, vi, idx, all_picks, picks, ndecoded, out,
                   oi, oj, exc, vres>>

NextLine ==
    \/ CallValidator
    \/ CallDecoder

SpecLine == InitLine /\ [][NextLine]_vars

-----------------------------------------------------------------------------
(* Vocabulary of the properties *)

\* the line without the newline that ends it
Text(line) == SelectSeq(line, LAMBDA c : c # "\n")

\* a line that is neither blank nor the separator '10' after trimming
IsContent(line) == strip(line) # <<>> /\ strip(line) # SEP

\* the structural signature: character 5 is 'P' or blank, characters 9 and
\* 20 are digits; a line too short to have one of them does not have it
HasSignature(line) ==
    LET l == Text(line)
    IN /\ Len(l) > 20
       /\ l[6] \in {"P", " "}
       /\ isdigit(l[10])
       /\ isdigit(l[21])

TooShort(line) == IsContent(line) /\ Len(Text(line)) <= 20

\* the columns a property names, of a line that has the signature
PhaseChar(line) == Text(line)[6]
QualityChar(line) == Text(line)[8]
StimeField(line) == Slice(Text(line), 31, 36)
HasStime(line) == strip(StimeField(line)) # <<>>

\* the separator lines among the first n lines of the file
SepIdx(n) == {i \in 1..n : strip(lines[i]) = SEP}
NSep(n) == Cardinality(SepIdx(n))

\* the position of the k-th separator line (0 for k = 0)
KthSep(k) ==
    IF k = 0 THEN 0
    ELSE CHOOSE i \in SepIdx(Len(lines)) :
             Cardinality({j \in SepIdx(Len(lines)) : j <= i}) = k

\* the picks decoded from the lines a..b of the file, in source order
RECURSIVE PicksOf(_, _)
PicksOf(a, b) ==
    IF a > b THEN <<>>
    ELSE PicksOf(a, b - 1) \o _parse_hypo71_pick_line(lines[b], errors).picks

RECURSIVE Flatten(_)
Flatten(events) ==
    IF events = <<>> THEN <<>> ELSE Head(events) \o Flatten(Tail(events))

\* the run is in or past the loop of parse_hypo71_picks
Scanning == pc \in {"parse", "output", "done"} \/ (pc = "crash" /\ ndecoded > 0)
Returned == pc \in {"output", "done"}

-----------------------------------------------------------------------------
(* C1 *)

\* C1: if any non-blank, non-separator line of the file fails the structural
\* signature, no line is ever decoded, nothing is ever written, and the run
\* never gets past validation: it can only end in the fatal exit or in an
\* uncaught exception of the validator.
T_C1 ==
    (\E i \in 1..Len(lines) : IsContent(lines[i]) /\ ~HasSignature(lines[i]))
    => /\ ndecoded = 0
       /\ out = <<>>
       /\ all_picks = <<>>
       /\ pc \in {"validate", "exit", "crash"}

\* the validator passed a pick line with two picks, then met a bad line and
\* the run exited with nothing decoded
W_C1 ==
    /\ pc = "exit"
    /\ Len(lines) > 1
    /\ vi = Len(lines)
    /\ lines[1] = L_PS
    /\ ndecoded = 0

-----------------------------------------------------------------------------
(* C2 *)

\* C2, as stated: when parse_hypo71_picks has returned, a file with N
\* separator lines has given N+1 events.
CE_C2 == Returned => Len(all_picks) = NSep(Len(lines)) + 1

\* C2, amended: throughout the scan of a validated file, all_picks holds
\* exactly one event per separator line read so far, in source order, the
\* k-th event being the picks decoded from the lines between the (k-1)-th
\* and the k-th separator; so a scan that returns has N events for N
\* separator lines, and no event holds picks from both sides of a separator.
T_C2 ==
    Scanning =>
        /\ Len(all_picks) = NSep(idx - 1)
        /\ \A k \in 1..Len(all_picks) :
               all_picks[k] = PicksOf(KthSep(k - 1) + 1, KthSep(k) - 1)
        /\ Returned => Len(all_picks) = NSep(Len(lines))

\* one separator with picks on both sides of it: one event was returned and
\* written, and the picks after the separator are in no event
W_C2 ==
    /\ pc = "done"
    /\ NSep(Len(lines)) = 1
    /\ Len(all_picks) = 1
    /\ all_picks[1] # <<>>
    /\ picks # <<>>

-----------------------------------------------------------------------------
(* C3 *)

\* the last non-blank line of the file exists and is not a separator
LastNotSep ==
    \E i \in 1..Len(lines) :
        /\ IsContent(lines[i])
        /\ \A j \in (i + 1)..Len(lines) : strip(lines[j]) = <<>>

\* C3: for a validated file whose last non-blank line is not a separator,
\* the run does not crash, and what parse_hypo71_picks returns is the picks
\* of the lines before the last separator, each in the event its separator
\* closes, without the picks of the lines after the last separator.
CE_C3 ==
    (LastNotSep /\ Scanning) =>
        /\ pc # "crash"
        /\ Returned =>
               /\ Flatten(all_picks) = PicksOf(1, KthSep(NSep(Len(lines))))
               /\ \A k \in 1..Len(all_picks) :
                      all_picks[k] = PicksOf(KthSep(k - 1) + 1, KthSep(k) - 1)

\* what holds of such a file: the returned events are as C3 says whenever
\* parse_hypo71_picks returns
DroppedTail ==
    (LastNotSep /\ Returned) =>
        /\ Flatten(all_picks) = PicksOf(1, KthSep(NSep(Len(lines))))
        /\ PicksOf(KthSep(NSep(Len(lines))) + 1, Len(lines)) = picks

-----------------------------------------------------------------------------
(* The decoder on one line: C4 to C8 *)

TheLine == lines[1]
Decoded == dres.ret # "uncalled"
Validated == vres # "uncalled"

\* C4: every pick the decoder produces has a quality in 0..4, and a line
\* with the signature, phase 'P' and a quality digit 5..9 gives a primary
\* pick of quality 4.
CE_C4 ==
    Decoded =>
        /\ \A i \in 1..Len(dres.picks) : dres.picks[i].quality \in 0..4
        /\ (/\ HasSignature(TheLine)
            /\ PhaseChar(TheLine) = "P"
            /\ QualityChar(TheLine) \in {"5", "6", "7", "8", "9"})
           => /\ dres.picks # <<>>
              /\ dres.picks[1].quality = 4

\* C5: the decoder never raises an exception to its caller.
CE_C5 == dres.ret # "raise"

\* C6: a line with the signature, phase 'P' and a non-blank second-pick
\* seconds field that float() reads gives exactly two picks, the primary
\* first; the second has the station, date, hour and minute of the first
\* and the value of the seconds field as its seconds.
CE_C6 ==
    (/\ Decoded
     /\ HasSignature(TheLine)
     /\ PhaseChar(TheLine) = "P"
     /\ HasStime(TheLine)
     /\ float(StimeField(TheLine)).exc = "none")
    => /\ Len(dres.picks) = 2
       /\ dres.picks[1].phase = <<"P">>
       /\ dres.picks[2].station = dres.picks[1].station
       /\ dres.picks[2].time.y = dres.picks[1].time.y
       /\ dres.picks[2].time.mo = dres.picks[1].time.mo
       /\ dres.picks[2].time.d = dres.picks[1].time.d
       /\ hour_of(dres.picks[2].time) = hour_of(dres.picks[1].time)
       /\ minute_of(dres.picks[2].time) = minute_of(dres.picks[1].time)
       /\ second_of(dres.picks[2].time) = float(StimeField(TheLine)).val

\* C7: a non-blank, non-separator line too short to have characters 5, 9 or
\* 20 makes the validator fail with its 'not a hypo71 phase file' TypeError
\* and makes the decoder return without a pick; neither raises an IndexError.
CE_C7 ==
    TooShort(TheLine) =>
        /\ Validated => vres = "TypeError"
        /\ Decoded => (dres.ret # "raise" /\ dres.picks = <<>>)

\* C8: for a line with the signature the decoder returns
\* (1 if phase is 'P' else 0) + (1 if the second-pick seconds field is
\* non-blank else 0) picks.
CE_C8 ==
    (Decoded /\ HasSignature(TheLine)) =>
        /\ dres.ret = "list"
        /\ Len(dres.picks) = (IF PhaseChar(TheLine) = "P" THEN 1 ELSE 0)
                             + (IF HasStime(TheLine) THEN 1 ELSE 0)

-----------------------------------------------------------------------------
(* C9 *)

\* the pick that the k-th pick line of the output renders
NthPick(k) == Flatten(all_picks)[k]
PickLinesOf(o) == SelectSeq(o, LAMBDA l : l.kind = "pick")

\* C9: every pick that parse_hypo71_picks holds or returns has
\* error = errors[quality], and every pick line written carries the error
\* errors[quality] of the pick it renders.
T_C9 ==
    /\ \A k \in 1..Len(all_picks) : \A i \in 1..Len(all_picks[k]) :
           /\ all_picks[k][i].quality \in 0..4
           /\ all_picks[k][i].error = errors[all_picks[k][i].quality + 1]
    /\ \A i \in 1..Len(picks) : picks[i].error = errors[picks[i].quality + 1]
    /\ \A k \in 1..Len(PickLinesOf(out)) :
           PickLinesOf(out)[k].text.error = errors[NthPick(k).quality + 1]

\* a primary pick of quality digit 1 and a second pick of quality digit 2
\* were written with the errors 0.02 and 0.03 of the default table
W_C9 ==
    /\ pc = "done"
    /\ errors = <<1, 2, 3, 4, 5>>
    /\ Len(PickLinesOf(out)) >= 2
    /\ \E k \in 1..Len(PickLinesOf(out)) :
           NthPick(k).quality = 1 /\ PickLinesOf(out)[k].text.error = 2
    /\ \E k \in 1..Len(PickLinesOf(out)) :
           NthPick(k).quality = 2 /\ PickLinesOf(out)[k].text.error = 3

-----------------------------------------------------------------------------
(* C10 *)

\* the lines of one event: a line per pick in order, then two blank lines
RenderEvent(event) ==
    [i \in 1..Len(event) |-> PickLine(event[i])] \o <<BlankLine, BlankLine>>

RECURSIVE RenderEvents(_)
RenderEvents(events) ==
    IF events = <<>> THEN <<>>
    ELSE RenderEvent(Head(events)) \o RenderEvents(Tail(events))

BlankLinesOf(o) == SelectSeq(o, LAMBDA l : l.kind = "blank")

\* C10: the output is, for each returned event in order, one line per pick
\* in pick order then two blank lines, empty events included: at any point
\* of the writing it is that text for the events written so far and the
\* picks written so far of the current event, and at the end it has as many
\* pick lines as the events have picks and two blank lines per event.
T_C10 ==
    /\ pc \in {"validate", "parse", "exit", "crash"} => out = <<>>
    /\ pc = "output" =>
           out = RenderEvents(SubSeq(all_picks, 1, oi - 1))
                 \o (IF oi <= Len(all_picks)
                     THEN [i \in 1..(oj - 1) |-> PickLine(all_picks[oi][i])]
                     ELSE <<>>)
    /\ pc = "done" =>
           /\ out = RenderEvents(all_picks)
           /\ Len(PickLinesOf(out)) = Len(Flatten(all_picks))
           /\ Len(BlankLinesOf(out)) = 2 * Len(all_picks)

\* an empty event and an event with picks were both written
W_C10 ==
    /\ pc = "done"
    /\ \E k \in 1..Len(all_picks) : all_picks[k] = <<>>
    /\ \E k \in 1..Len(all_picks) : Len(all_picks[k]) >= 2
    /\ Len(BlankLinesOf(out)) = 4

====
